---- MODULE Spec2Model ----
(***************************************************************************)
(* Model of package response (helper.go): the process-wide template        *)
(* catalog `templates`, the data overlay `templatesData`, the registration *)
(* calls TemplatesFuncs / TemplatesData and the renderers.                  *)
(*                                                                         *)
(* A Go map value is a record [nil, kv]: nil tells the nil map from an     *)
(* allocated one, kv is the function from the keys present to their values.*)
(* A response is the record of what was written to c.ResponseWriter, with  *)
(* `log` the order of the writes.                                          *)
(***************************************************************************)
EXTENDS Integers, Sequences, FiniteSets, TLC

\* ------------------------------------------------------------------ bounds

\* The number of TemplatesData calls whose arguments the history `regs` records.
MaxRegs == 2

\* ------------------------------------------------------------ value domains

\* Keys of data maps: the two reserved keys and an ordinary one.
Keys == {"c", "production", "k"}
\* Values a caller puts in the map it passes, values registered in the overlay.
CallVals == {"u"}
OverlayVals == {"o1", "o2"}
\* The *core.Context of the request and the value of core.Production.
CtxVal == "ctx"
ProductionVal == "prod"

templatesDir == "templates"
errNoTemplatesDir == "response: templates can't be used without a \"templates\" directory"
NoErr == ""
ErrUndefined == "html/template: template is undefined"
ErrFunc == "template: error calling function"
ErrParse == "template: parse error"
ErrIO == "lstat: input/output error"
ErrMarshal == "json: unsupported value"

\* http.StatusOK, and the status codes a caller asks for.
StatusOK == 200
Codes == {StatusOK, 404}
RedirectCodes == {302}

EmptyKV == [k \in {} |-> "u"]
NilMap == [nil |-> TRUE, kv |-> EmptyKV]
MkMap(f) == [nil |-> FALSE, kv |-> f]
MapsOver(V) == UNION {[D -> V] : D \in SUBSET Keys}
\* What a caller may pass as data, and what may be registered in the overlay.
CallMaps == {NilMap} \cup {MkMap(f) : f \in MapsOver(CallVals)}
RegMaps == {NilMap} \cup {MkMap(f) : f \in MapsOver(OverlayVals)}

\* m[k] = v on a map's entries.
Put(m, k, v) == [x \in (DOMAIN m) \cup {k} |-> IF x = k THEN v ELSE m[x]]

\* ------------------------------------------------------ the templates tree

Text(s) == [op |-> "text", arg |-> s]
Key(k) == [op |-> "key", arg |-> k]
Call(f) == [op |-> "call", arg |-> f]

HelloBody == <<Text("Hello, "), Key("k"), Text("!"), Key("c"), Key("production")>>
FailBody == <<Text("Hi "), Call("f"), Key("k")>>
PageBody == <<Key("k")>>

\* The content of the regular files: a file with a syntax error has no body.
Broken == "templates/sub/broken.tmpl"
FileBody(path) ==
  CASE path = "templates/hello.tmpl" -> HelloBody
    [] path = "templates/fail.tmpl" -> FailBody
    [] OTHER -> PageBody

Dir(p) == [path |-> p, base |-> p, isDir |-> TRUE, err |-> NoErr]
File(p, b) == [path |-> p, base |-> b, isDir |-> FALSE, err |-> NoErr]
Unreadable(p) == [path |-> p, base |-> p, isDir |-> TRUE, err |-> ErrIO]

\* The calls of the WalkFunc that filepath.Walk makes on a tree, in lexical
\* order, when no call returns an error.
TreePlain ==
  << Dir("templates"),
     File("templates/hello.tmpl", "hello.tmpl"),
     Dir("templates/sub"),
     File("templates/sub/page.tmpl", "page.tmpl") >>
TreeFuncs ==
  << Dir("templates"),
     File("templates/fail.tmpl", "fail.tmpl"),
     File("templates/hello.tmpl", "hello.tmpl"),
     Dir("templates/sub"),
     File("templates/sub/page.tmpl", "page.tmpl") >>
TreeBroken ==
  << Dir("templates"),
     File("templates/hello.tmpl", "hello.tmpl"),
     Dir("templates/sub"),
     File(Broken, "broken.tmpl"),
     File("templates/zz.tmpl", "zz.tmpl") >>
TreeIOError ==
  << Dir("templates"),
     File("templates/hello.tmpl", "hello.tmpl"),
     Dir("templates/sub"),
     Unreadable("templates/sub"),
     File("templates/zz.tmpl", "zz.tmpl") >>
\* The directory trees the process may be started on, by name.
TreeIds == {"plain", "funcs", "broken", "ioerror"}
TreeOf(id) ==
  CASE id = "plain" -> TreePlain
    [] id = "funcs" -> TreeFuncs
    [] id = "broken" -> TreeBroken
    [] id = "ioerror" -> TreeIOError
    [] OTHER -> <<>>

TemplateNames == {"hello.tmpl", "fail.tmpl", "missing.tmpl"}

\* ------------------------------------------------------------- the catalog

EmptyFn == [n \in {} |-> "ok"]
\* The parsed templates: base name -> the file it was parsed from.
EmptyTmpls == [n \in {} |-> ""]
\* var templates *template.Template, nil until init finds the directory.
NilTemplates == [nil |-> TRUE, funcs |-> EmptyFn, tmpls |-> EmptyTmpls, parsed |-> {}]
\* template.New(templatesDir) with the built-in funcs html and nl2br.
NewTemplates ==
  [nil |-> FALSE,
   funcs |-> [n \in {"html", "nl2br"} |-> "ok"],
   tmpls |-> EmptyTmpls,
   parsed |-> {}]

\* A FuncMap maps a name to a function; a function is "ok" (returns a value)
\* or "err" (returns a non-nil error as its second value).
FuncMaps == {EmptyFn} \cup {[n \in {"f"} |-> b] : b \in {"ok", "err"}}

\* ------------------------------------------------- startup: init, the walk

\* templates.ParseFiles(path): the file is parsed and stored under its base
\* name; a syntax error, or a call of a function the catalog does not define
\* at parse time, fails.
ParseFiles(t, e) ==
  IF e.path = Broken
     \/ \E i \in 1..Len(FileBody(e.path)) :
          FileBody(e.path)[i].op = "call" /\ FileBody(e.path)[i].arg \notin DOMAIN t.funcs
  THEN [err |-> ErrParse, t |-> t]
  ELSE [err |-> NoErr,
        t |-> [t EXCEPT !.tmpls = Put(t.tmpls, e.base, e.path),
                        !.parsed = t.parsed \cup {e.path}]]

\* func templatesWalk(path, f, err) error
templatesWalk(t, e) ==
  IF e.err # NoErr THEN [err |-> e.err, t |-> t]
  ELSE IF e.isDir THEN [err |-> NoErr, t |-> t]
  ELSE ParseFiles(t, e)

\* filepath.Walk(templatesDir, templatesWalk): the calls are made in order and
\* the first error a call returns ends the walk; `visited` counts the calls.
RECURSIVE Walk(_, _, _)
Walk(t, entries, i) ==
  IF i > Len(entries) THEN [err |-> NoErr, t |-> t, visited |-> Len(entries)]
  ELSE LET r == templatesWalk(t, entries[i])
       IN IF r.err # NoErr THEN [err |-> r.err, t |-> r.t, visited |-> i]
          ELSE Walk(r.t, entries, i + 1)

\* Mutant: the hook swallows the walk's error instead of panicking.
BeforeRunHookSwallow(t, entries) ==
  LET r == Walk(t, entries, 1)
  IN [t |-> r.t, visited |-> r.visited, err |-> r.err, panicked |-> FALSE]

\* The callback init hands to core.BeforeRun: it panics on a walk error.
BeforeRunHook(t, entries) ==
  LET r == Walk(t, entries, 1)
  IN [t |-> r.t, visited |-> r.visited, err |-> r.err, panicked |-> r.err # NoErr]

\* ------------------------------------------------------------ registration

\* templates.Funcs(FuncMap(funcs)): each name is bound, a bound name is rebound.
RECURSIVE BindAll(_, _, _)
BindAll(dst, src, ns) ==
  IF ns = {} THEN dst
  ELSE LET n == CHOOSE x \in ns : TRUE
       IN BindAll(Put(dst, n, src[n]), src, ns \ {n})

\* func TemplatesFuncs(funcs FuncMap)
TemplatesFuncsOp(t, funcs) ==
  IF t.nil THEN [err |-> errNoTemplatesDir, panicked |-> TRUE, t |-> t]
  ELSE [err |-> NoErr, panicked |-> FALSE,
        t |-> [t EXCEPT !.funcs = BindAll(t.funcs, funcs, DOMAIN funcs)]]

\* for k, v := range data { templatesData[k] = v }
RECURSIVE AssignAll(_, _, _)
AssignAll(dst, src, ks) ==
  IF ks = {} THEN dst
  ELSE LET k == CHOOSE x \in ks : TRUE
       IN AssignAll(Put(dst, k, src[k]), src, ks \ {k})

\* Mutant: the empty-map return comes before the nil-catalog check.
TemplatesDataEmptyFirst(t, td, data) ==
  IF data.nil \/ Cardinality(DOMAIN data.kv) = 0
  THEN [err |-> NoErr, panicked |-> FALSE, td |-> td]
  ELSE IF t.nil THEN [err |-> errNoTemplatesDir, panicked |-> TRUE, td |-> td]
  ELSE LET made == IF td.nil THEN MkMap(EmptyKV) ELSE td
       IN [err |-> NoErr, panicked |-> FALSE,
           td |-> MkMap(AssignAll(made.kv, data.kv, DOMAIN data.kv))]

\* Mutant: a key the overlay already holds keeps its first value.
TemplatesDataKeepFirst(t, td, data) ==
  IF t.nil THEN [err |-> errNoTemplatesDir, panicked |-> TRUE, td |-> td]
  ELSE IF data.nil \/ Cardinality(DOMAIN data.kv) = 0
  THEN [err |-> NoErr, panicked |-> FALSE, td |-> td]
  ELSE [err |-> NoErr, panicked |-> FALSE,
        td |-> MkMap([k \in (DOMAIN td.kv) \cup (DOMAIN data.kv) |->
                       IF k \in DOMAIN td.kv THEN td.kv[k] ELSE data.kv[k]])]

\* func TemplatesData(data DataMap)
TemplatesDataOp(t, td, data) ==
  IF t.nil THEN [err |-> errNoTemplatesDir, panicked |-> TRUE, td |-> td]
  ELSE IF data.nil \/ Cardinality(DOMAIN data.kv) = 0
  THEN [err |-> NoErr, panicked |-> FALSE, td |-> td]
  ELSE LET made == IF td.nil THEN MkMap(EmptyKV) ELSE td
       IN [err |-> NoErr, panicked |-> FALSE,
           td |-> MkMap(AssignAll(made.kv, data.kv, DOMAIN data.kv))]

\* ---------------------------------------------------------------- renderers

\* What was written to c.ResponseWriter: `log` is the order of the writes.
EmptyResp == [log |-> <<>>, contentType |-> "", location |-> "", code |-> 0, body |-> <<>>]
SetHeader(r, ct) == [r EXCEPT !.log = Append(@, "header"), !.contentType = ct]
WriteHeader(r, code) == [r EXCEPT !.log = Append(@, "status"), !.code = code]
Write(r, b) == [r EXCEPT !.log = Append(@, "body"), !.body = @ \o b]

\* html/template's execution of a parsed body against a data map: the output
\* is written piece by piece, and a function returning an error ends the
\* execution after the pieces before it were written.
RECURSIVE ExecBody(_, _, _, _, _)
ExecBody(body, i, funcs, data, out) ==
  IF i > Len(body) THEN [err |-> NoErr, out |-> out]
  ELSE LET it == body[i]
       IN CASE it.op = "text" -> ExecBody(body, i + 1, funcs, data, Append(out, it.arg))
            [] it.op = "key" ->
                 ExecBody(body, i + 1, funcs, data,
                          Append(out, IF it.arg \in DOMAIN data THEN data[it.arg] ELSE "<no value>"))
            [] it.op = "call" ->
                 IF funcs[it.arg] = "err" THEN [err |-> ErrFunc, out |-> out]
                 ELSE ExecBody(body, i + 1, funcs, data, Append(out, "f()"))

\* templates.ExecuteTemplate(wr, name, data) of html/template.
LibExecuteTemplate(t, name, data) ==
  IF name \notin DOMAIN t.tmpls THEN [err |-> ErrUndefined, out |-> <<>>]
  ELSE ExecBody(FileBody(t.tmpls[name]), 1, t.funcs, data, <<>>)

\* data["c"] = c; data["production"] = core.Production
InjectReserved(data, c) == Put(Put(data, "c", c), "production", ProductionVal)

\* Mutant: the overlay is merged without the `!ok` test, over the caller's keys.
MergeOverlayOverwrite(data, td, ks) ==
  [k \in (DOMAIN data) \cup ks |-> IF k \in ks THEN td[k] ELSE data[k]]

\* for k, v := range templatesData { if _, ok := data[k]; !ok { data[k] = v } }
RECURSIVE MergeOverlay(_, _, _)
MergeOverlay(data, td, ks) ==
  IF ks = {} THEN data
  ELSE LET k == CHOOSE x \in ks : TRUE
       IN MergeOverlay(IF k \notin DOMAIN data THEN Put(data, k, td[k]) ELSE data,
                       td, ks \ {k})

\* Mutant: the effective map is a copy, the caller's map is left alone.
ExecuteTemplateCopy(t, td, c, name, data) ==
  IF t.nil
  THEN [err |-> errNoTemplatesDir, out |-> <<>>, seen |-> NilMap, after |-> data]
  ELSE LET made == IF data.nil THEN EmptyKV ELSE data.kv
           eff == MergeOverlay(InjectReserved(made, c), td.kv, DOMAIN td.kv)
           r == LibExecuteTemplate(t, name, eff)
       IN [err |-> r.err, out |-> r.out, seen |-> MkMap(eff), after |-> data]

\* func ExecuteTemplate(wr, c, name, data) error.  `out` is what was written
\* to wr, `seen` the map the template was executed against, `after` the map
\* the caller holds when the call returns (a map is a reference: the
\* assignments go to the caller's map unless it was nil).
ExecuteTemplateOp(t, td, c, name, data) ==
  IF t.nil
  THEN [err |-> errNoTemplatesDir, out |-> <<>>, seen |-> NilMap, after |-> data]
  ELSE LET made == IF data.nil THEN EmptyKV ELSE data.kv
           eff == MergeOverlay(InjectReserved(made, c), td.kv, DOMAIN td.kv)
           r == LibExecuteTemplate(t, name, eff)
       IN [err |-> r.err, out |-> r.out, seen |-> MkMap(eff),
           after |-> IF data.nil THEN data ELSE MkMap(eff)]

\* Mutant: the template is executed straight into the ResponseWriter, after
\* the header and the status were written.
TemplateStatusUnbuffered(t, td, c, code, name, data) ==
  IF t.nil
  THEN [err |-> errNoTemplatesDir, panicked |-> TRUE, resp |-> EmptyResp,
        seen |-> NilMap, after |-> data, out |-> <<>>]
  ELSE LET r == ExecuteTemplateOp(t, td, c, name, data)
       IN [err |-> r.err, panicked |-> r.err # NoErr,
           resp |-> Write(WriteHeader(SetHeader(EmptyResp, "text/html; charset=utf-8"),
                                      code), r.out),
           seen |-> r.seen, after |-> r.after, out |-> r.out]

\* func TemplateStatus(c, code, name, data)
TemplateStatusOp(t, td, c, code, name, data) ==
  IF t.nil
  THEN [err |-> errNoTemplatesDir, panicked |-> TRUE, resp |-> EmptyResp,
        seen |-> NilMap, after |-> data, out |-> <<>>]
  ELSE LET r == ExecuteTemplateOp(t, td, c, name, data)
       IN IF r.err # NoErr
          THEN [err |-> r.err, panicked |-> TRUE, resp |-> EmptyResp,
                seen |-> r.seen, after |-> r.after, out |-> r.out]
          ELSE [err |-> NoErr, panicked |-> FALSE,
                resp |-> Write(WriteHeader(SetHeader(EmptyResp, "text/html; charset=utf-8"),
                                           code), r.out),
                seen |-> r.seen, after |-> r.after, out |-> r.out]

\* func Template(c, name, data)
TemplateOp(t, td, c, name, data) == TemplateStatusOp(t, td, c, StatusOK, name, data)

\* Payloads of String / Bytes, and httputil.SetDetectedContentType on them
\* (http.DetectContentType: the type is sniffed from the first bytes).
Payloads == {"ok", "{\"a\":1}", "<html><body>x</body></html>"}
DetectContentType(p) ==
  IF p = "<html><body>x</body></html>" THEN "text/html; charset=utf-8"
  ELSE "text/plain; charset=utf-8"

\* func StringStatus(c, code, s)
StringStatusOp(code, s) ==
  Write(WriteHeader(SetHeader(EmptyResp, DetectContentType(s)), code), <<s>>)
\* func String(c, s)
StringOp(s) == StringStatusOp(StatusOK, s)
\* func BytesStatus(c, code, b)
BytesStatusOp(code, b) ==
  Write(WriteHeader(SetHeader(EmptyResp, DetectContentType(b)), code), <<b>>)
\* func Bytes(c, b)
BytesOp(b) == BytesStatusOp(StatusOK, b)

\* Values handed to JSON / JSONStatus, and json.Marshal on them.
JSONValues == {"object", "cyclic"}
Marshal(v) ==
  IF v = "cyclic" THEN [err |-> ErrMarshal, b |-> <<>>]
  ELSE [err |-> NoErr, b |-> <<"{\"a\":1}">>]

\* Mutant: the content type is set before the value is marshalled.
JSONStatusHeaderFirst(code, v) ==
  LET m == Marshal(v)
  IN IF m.err # NoErr
     THEN [err |-> m.err, panicked |-> TRUE,
           resp |-> SetHeader(EmptyResp, "application/json")]
     ELSE [err |-> NoErr, panicked |-> FALSE,
           resp |-> Write(WriteHeader(SetHeader(EmptyResp, "application/json"), code), m.b)]

\* func JSONStatus(c, code, v)
JSONStatusOp(code, v) ==
  LET m == Marshal(v)
  IN IF m.err # NoErr
     THEN [err |-> m.err, panicked |-> TRUE, resp |-> EmptyResp]
     ELSE [err |-> NoErr, panicked |-> FALSE,
           resp |-> Write(WriteHeader(SetHeader(EmptyResp, "application/json"), code), m.b)]
\* func JSON(c, v)
JSONOp(v) == JSONStatusOp(StatusOK, v)

\* func Redirect(c, urlStr, code): http.Redirect sets Location and the status.
RedirectOp(urlStr, code) ==
  [EmptyResp EXCEPT !.log = <<"header", "status">>, !.location = urlStr, !.code = code]

\* func Status(c, code): http.Error with http.StatusText(code) as the body.
StatusText(code) == IF code = StatusOK THEN "OK" ELSE "Not Found"
StatusOp(code) ==
  Write(WriteHeader(SetHeader(EmptyResp, "text/plain; charset=utf-8"), code),
        <<StatusText(code)>>)

\* -------------------------------------------------------------------- state

VARIABLES
  dirExists,      \* whether os.Stat(templatesDir) succeeded in init
  tree,           \* the directory tree under templatesDir, by name
  templates,      \* var templates *template.Template
  templatesData,  \* var templatesData map[string]interface{}
  phase,          \* "config" until the host runs its BeforeRun hooks, then "serving" or "panicked"
  walked,         \* the number of templatesWalk calls the hook's walk made
  walkErr,        \* the error the walk returned
  heap,           \* the data map the application holds from its last templated render
  call,           \* the last call of the package: its arguments and its outcome
  resp,           \* what the last call wrote to its request's ResponseWriter
  regs,           \* the arguments of the TemplatesData calls made so far
  wk              \* the request each concurrent worker is handling, and how far it got

vars == <<dirExists, tree, templates, templatesData, phase, walked, walkErr,
          heap, call, resp, regs, wk>>

\* The workers of the host that handle requests concurrently.
Workers == {"w1", "w2"}
\* A worker between two requests.
Idle ==
  [pc |-> "idle", op |-> "none", name |-> "", code |-> 0, arg |-> NilMap, data |-> NilMap,
   todo |-> {}, buf |-> <<>>, err |-> NoErr, panicked |-> FALSE, resp |-> EmptyResp]

NoCall ==
  [op |-> "none", name |-> "", code |-> 0, arg |-> NilMap, seen |-> NilMap,
   err |-> NoErr, panicked |-> FALSE, out |-> <<>>]

\* Mutant: init creates the catalog without looking for the directory.
InitAlways ==
  /\ dirExists \in BOOLEAN
  /\ tree \in (IF dirExists THEN TreeIds ELSE {"none"})
  /\ templates = NewTemplates
  /\ templatesData = NilMap
  /\ phase = "config"
  /\ walked = 0
  /\ walkErr = NoErr
  /\ heap = NilMap
  /\ call = NoCall
  /\ resp = EmptyResp
  /\ regs = <<>>
  /\ wk = [w \in Workers |-> Idle]

\* func init(): the catalog is created only when the directory exists.
Init ==
  /\ dirExists \in BOOLEAN
  /\ tree \in (IF dirExists THEN TreeIds ELSE {"none"})
  /\ templates = (IF dirExists THEN NewTemplates ELSE NilTemplates)
  /\ templatesData = NilMap
  /\ phase = "config"
  /\ walked = 0
  /\ walkErr = NoErr
  /\ heap = NilMap
  /\ call = NoCall
  /\ resp = EmptyResp
  /\ regs = <<>>
  /\ wk = [w \in Workers |-> Idle]

Alive == phase \in {"config", "serving"}

\* The host runs the BeforeRun hooks, then serves; init registered the hook
\* only when the directory exists.  A panic of the hook ends the process.
Run ==
  /\ phase = "config"
  /\ IF templates.nil
     THEN /\ phase' = "serving"
          /\ UNCHANGED <<templates, walked, walkErr>>
     ELSE LET r == BeforeRunHook(templates, TreeOf(tree))
          IN /\ templates' = r.t
             /\ walked' = r.visited
             /\ walkErr' = r.err
             /\ phase' = IF r.panicked THEN "panicked" ELSE "serving"
  /\ UNCHANGED <<dirExists, tree, templatesData, heap, call, resp, regs, wk>>

TemplatesFuncs ==
  /\ Alive
  /\ \E funcs \in FuncMaps :
       \E r \in {TemplatesFuncsOp(templates, funcs)} :
          /\ templates' = r.t
          /\ call' = [NoCall EXCEPT !.op = "TemplatesFuncs", !.err = r.err,
                                    !.panicked = r.panicked]
  /\ resp' = EmptyResp
  /\ UNCHANGED <<dirExists, tree, templatesData, phase, walked, walkErr, heap, regs, wk>>

\* The effect of TemplatesData(data) on the package and on the call record.
TemplatesDataCall(data) ==
  \E r \in {TemplatesDataOp(templates, templatesData, data)} :
     /\ templatesData' = r.td
     /\ call' = [NoCall EXCEPT !.op = "TemplatesData", !.arg = data, !.err = r.err,
                               !.panicked = r.panicked]
     /\ resp' = EmptyResp
     /\ UNCHANGED <<dirExists, tree, templates, phase, walked, walkErr, heap, wk>>

TemplatesData ==
  /\ Alive
  /\ \E data \in RegMaps : TemplatesDataCall(data)
  /\ UNCHANGED regs

\* A templated render is handed a fresh map or the map the application holds.
RenderMaps == CallMaps \cup {heap}

Template ==
  /\ phase = "serving"
  /\ \E name \in TemplateNames, data \in RenderMaps :
       \E r \in {TemplateOp(templates, templatesData, CtxVal, name, data)} :
          /\ call' = [op |-> "Template", name |-> name, code |-> StatusOK, arg |-> data,
                      seen |-> r.seen, err |-> r.err, panicked |-> r.panicked, out |-> r.out]
          /\ resp' = r.resp
          /\ heap' = r.after
  /\ UNCHANGED <<dirExists, tree, templates, templatesData, phase, walked, walkErr, regs, wk>>

TemplateStatus ==
  /\ phase = "serving"
  /\ \E name \in TemplateNames, code \in Codes, data \in RenderMaps :
       \E r \in {TemplateStatusOp(templates, templatesData, CtxVal, code, name, data)} :
          /\ call' = [op |-> "TemplateStatus", name |-> name, code |-> code, arg |-> data,
                      seen |-> r.seen, err |-> r.err, panicked |-> r.panicked, out |-> r.out]
          /\ resp' = r.resp
          /\ heap' = r.after
  /\ UNCHANGED <<dirExists, tree, templates, templatesData, phase, walked, walkErr, regs, wk>>

\* ExecuteTemplate called by the application with a writer of its own: the
\* error is returned, and nothing goes to the ResponseWriter.
ExecuteTemplate ==
  /\ phase = "serving"
  /\ \E name \in TemplateNames, data \in RenderMaps :
       \E r \in {ExecuteTemplateOp(templates, templatesData, CtxVal, name, data)} :
          /\ call' = [op |-> "ExecuteTemplate", name |-> name, code |-> 0, arg |-> data,
                      seen |-> r.seen, err |-> r.err, panicked |-> FALSE, out |-> r.out]
          /\ heap' = r.after
  /\ resp' = EmptyResp
  /\ UNCHANGED <<dirExists, tree, templates, templatesData, phase, walked, walkErr, regs, wk>>

\* The frame of the renderers that use neither the catalog nor a data map.
PlainFrame ==
  UNCHANGED <<dirExists, tree, templates, templatesData, phase, walked, walkErr, heap, regs, wk>>

String ==
  /\ phase = "serving"
  /\ \E s \in Payloads :
       /\ resp' = StringOp(s)
       /\ call' = [NoCall EXCEPT !.op = "String", !.name = s, !.code = StatusOK]
  /\ PlainFrame

StringStatus ==
  /\ phase = "serving"
  /\ \E s \in Payloads, code \in Codes :
       /\ resp' = StringStatusOp(code, s)
       /\ call' = [NoCall EXCEPT !.op = "StringStatus", !.name = s, !.code = code]
  /\ PlainFrame

Bytes ==
  /\ phase = "serving"
  /\ \E b \in Payloads :
       /\ resp' = BytesOp(b)
       /\ call' = [NoCall EXCEPT !.op = "Bytes", !.name = b, !.code = StatusOK]
  /\ PlainFrame

BytesStatus ==
  /\ phase = "serving"
  /\ \E b \in Payloads, code \in Codes :
       /\ resp' = BytesStatusOp(code, b)
       /\ call' = [NoCall EXCEPT !.op = "BytesStatus", !.name = b, !.code = code]
  /\ PlainFrame

JSON ==
  /\ phase = "serving"
  /\ \E v \in JSONValues :
       \E r \in {JSONOp(v)} :
          /\ resp' = r.resp
          /\ call' = [NoCall EXCEPT !.op = "JSON", !.name = v, !.code = StatusOK,
                                    !.err = r.err, !.panicked = r.panicked]
  /\ PlainFrame

JSONStatus ==
  /\ phase = "serving"
  /\ \E v \in JSONValues, code \in Codes :
       \E r \in {JSONStatusOp(code, v)} :
          /\ resp' = r.resp
          /\ call' = [NoCall EXCEPT !.op = "JSONStatus", !.name = v, !.code = code,
                                    !.err = r.err, !.panicked = r.panicked]
  /\ PlainFrame

Redirect ==
  /\ phase = "serving"
  /\ \E code \in RedirectCodes :
       /\ resp' = RedirectOp("/login", code)
       /\ call' = [NoCall EXCEPT !.op = "Redirect", !.name = "/login", !.code = code]
  /\ PlainFrame

Status ==
  /\ phase = "serving"
  /\ \E code \in Codes :
       /\ resp' = StatusOp(code)
       /\ call' = [NoCall EXCEPT !.op = "Status", !.code = code]
  /\ PlainFrame

Next ==
  \/ Run
  \/ TemplatesFuncs
  \/ TemplatesData
  \/ Template
  \/ TemplateStatus
  \/ ExecuteTemplate
  \/ String
  \/ StringStatus
  \/ Bytes
  \/ BytesStatus
  \/ JSON
  \/ JSONStatus
  \/ Redirect
  \/ Status

Spec == Init /\ [][Next]_vars

\* ------------------------------------------- registration, with its history

\* TemplatesData, the argument of the call appended to the history.
TemplatesDataRecorded ==
  /\ Alive
  /\ Len(regs) < MaxRegs
  /\ \E data \in RegMaps :
       /\ TemplatesDataCall(data)
       /\ regs' = Append(regs, data)

NextReg ==
  \/ Run
  \/ TemplatesDataRecorded

SpecReg == Init /\ [][NextReg]_vars

\* ------------------------------------------- serving: concurrent requests

\* The process once configuration is over: the directory absent, or the tree
\* with fail.tmpl walked with f registered, and an overlay registered.
ServeOverlays ==
  {NilMap, MkMap([x \in {"k"} |-> "o1"]),
   MkMap([x \in {"c", "k"} |-> IF x = "c" THEN "o1" ELSE "o2"])}
ServeArgs == {NilMap, MkMap(EmptyKV), MkMap([x \in {"c", "k"} |-> "u"])}
ServeCatalogs ==
  {BeforeRunHook(TemplatesFuncsOp(NewTemplates, [n \in {"f"} |-> b]).t, TreeFuncs).t :
     b \in {"ok", "err"}}

InitServe ==
  /\ dirExists \in BOOLEAN
  /\ tree = (IF dirExists THEN "funcs" ELSE "none")
  /\ templates \in (IF dirExists THEN ServeCatalogs ELSE {NilTemplates})
  /\ templatesData \in (IF dirExists THEN ServeOverlays ELSE {NilMap})
  /\ phase = "serving"
  /\ walked = Len(TreeOf(tree))
  /\ walkErr = NoErr
  /\ heap = NilMap
  /\ call = NoCall
  /\ resp = EmptyResp
  /\ regs = <<>>
  /\ wk = [w \in Workers |-> Idle]

\* A step of worker w: only wk[w] changes, unless the step says otherwise.
ServeFrame ==
  UNCHANGED <<dirExists, tree, templates, templatesData, phase, walked, walkErr,
              heap, call, resp, regs>>

\* A handler calls Template (status 200), TemplateStatus or ExecuteTemplate
\* with a data map of its own.
WStart(w) ==
  /\ wk[w].pc = "idle"
  /\ \E op \in {"Template", "TemplateStatus", "ExecuteTemplate"},
        name \in TemplateNames, arg \in ServeArgs :
       wk' = [wk EXCEPT ![w] =
                [Idle EXCEPT !.pc = IF op = "ExecuteTemplate" THEN "et_check" ELSE "ts_check",
                             !.op = op, !.name = name,
                             !.code = CASE op = "Template" -> StatusOK
                                        [] op = "TemplateStatus" -> 404
                                        [] OTHER -> 0,
                             !.arg = arg, !.data = arg]]
  /\ ServeFrame

\* TemplateStatus: if templates == nil { panic(errNoTemplatesDir) }
WTemplateStatusCheck(w) ==
  /\ wk[w].pc = "ts_check"
  /\ wk' = [wk EXCEPT ![w] =
              IF templates.nil
              THEN [@ EXCEPT !.pc = "done", !.err = errNoTemplatesDir, !.panicked = TRUE]
              ELSE [@ EXCEPT !.pc = "et_check"]]
  /\ ServeFrame

\* ExecuteTemplate: the nil check, the allocation of a nil map, data["c"] = c
WExecuteTemplateEnter(w) ==
  /\ wk[w].pc = "et_check"
  /\ wk' = [wk EXCEPT ![w] =
              IF templates.nil
              THEN [@ EXCEPT !.pc = IF wk[w].op = "ExecuteTemplate" THEN "done" ELSE "ts_after",
                             !.err = errNoTemplatesDir]
              ELSE [@ EXCEPT !.pc = "et_prod",
                             !.data = MkMap(Put(IF @.nil THEN EmptyKV ELSE @.kv, "c", CtxVal))]]
  /\ ServeFrame

\* data["production"] = core.Production, and the range over templatesData begins
WInjectProduction(w) ==
  /\ wk[w].pc = "et_prod"
  /\ wk' = [wk EXCEPT ![w] =
              [@ EXCEPT !.pc = "et_merge",
                        !.data = MkMap(Put(@.kv, "production", ProductionVal)),
                        !.todo = DOMAIN templatesData.kv]]
  /\ ServeFrame

\* Mutant: the assignment of the loop goes the wrong way, into the overlay.
WMergeIntoOverlay(w) ==
  /\ wk[w].pc = "et_merge"
  /\ \E k \in wk[w].todo :
       /\ wk' = [wk EXCEPT ![w] = [@ EXCEPT !.todo = @ \ {k}]]
       /\ templatesData' =
            IF k \in DOMAIN wk[w].data.kv
            THEN MkMap(Put(templatesData.kv, k, wk[w].data.kv[k]))
            ELSE templatesData
  /\ UNCHANGED <<dirExists, tree, templates, phase, walked, walkErr, heap, call, resp, regs>>

\* One iteration of the range over templatesData, in any order of the keys:
\* if _, ok := data[k]; !ok { data[k] = v }
WMerge(w) ==
  /\ wk[w].pc = "et_merge"
  /\ \E k \in wk[w].todo :
       wk' = [wk EXCEPT ![w] =
                [@ EXCEPT !.todo = @ \ {k},
                          !.data = IF k \in DOMAIN @.kv THEN @
                                   ELSE MkMap(Put(@.kv, k, templatesData.kv[k]))]]
  /\ ServeFrame

\* return templates.ExecuteTemplate(wr, name, data)
WExecute(w) ==
  /\ wk[w].pc = "et_merge"
  /\ wk[w].todo = {}
  /\ \E r \in {LibExecuteTemplate(templates, wk[w].name, wk[w].data.kv)} :
       wk' = [wk EXCEPT ![w] =
                [@ EXCEPT !.pc = IF wk[w].op = "ExecuteTemplate" THEN "done" ELSE "ts_after",
                          !.buf = r.out, !.err = r.err]]
  /\ ServeFrame

\* TemplateStatus: panic(err), or Header().Set("Content-Type", ...)
WAfterExecute(w) ==
  /\ wk[w].pc = "ts_after"
  /\ wk' = [wk EXCEPT ![w] =
              IF @.err # NoErr
              THEN [@ EXCEPT !.pc = "done", !.panicked = TRUE]
              ELSE [@ EXCEPT !.pc = "ts_status",
                             !.resp = SetHeader(@, "text/html; charset=utf-8")]]
  /\ ServeFrame

\* c.ResponseWriter.WriteHeader(code)
WWriteHeader(w) ==
  /\ wk[w].pc = "ts_status"
  /\ wk' = [wk EXCEPT ![w] = [@ EXCEPT !.pc = "ts_body", !.resp = WriteHeader(@, wk[w].code)]]
  /\ ServeFrame

\* b.WriteTo(c.ResponseWriter)
WWriteBody(w) ==
  /\ wk[w].pc = "ts_body"
  /\ wk' = [wk EXCEPT ![w] = [@ EXCEPT !.pc = "done", !.resp = Write(@, wk[w].buf)]]
  /\ ServeFrame

\* The renderers that touch nothing but the request's own ResponseWriter.
WPlainDone(w, op, name, code, r) ==
  /\ wk[w].pc = "idle"
  /\ wk' = [wk EXCEPT ![w] = [Idle EXCEPT !.pc = "done", !.op = op, !.name = name,
                                          !.code = code, !.resp = r]]
  /\ ServeFrame

WString(w) == \E p \in Payloads : WPlainDone(w, "String", p, StatusOK, StringOp(p))
WBytes(w) == \E p \in Payloads : WPlainDone(w, "Bytes", p, StatusOK, BytesOp(p))
WRedirect(w) == WPlainDone(w, "Redirect", "/login", 302, RedirectOp("/login", 302))
WStatus(w) == WPlainDone(w, "Status", "", 404, StatusOp(404))
WJSON(w) ==
  /\ wk[w].pc = "idle"
  /\ \E v \in JSONValues :
       \E r \in {JSONOp(v)} :
          wk' = [wk EXCEPT ![w] = [Idle EXCEPT !.pc = "done", !.op = "JSON", !.name = v,
                                              !.code = StatusOK, !.err = r.err,
                                              !.panicked = r.panicked, !.resp = r.resp]]
  /\ ServeFrame

\* The handler returns; the worker takes the next request.
WFinish(w) ==
  /\ wk[w].pc = "done"
  /\ wk' = [wk EXCEPT ![w] = Idle]
  /\ ServeFrame

NextServe ==
  \/ \E w \in Workers : WStart(w)
  \/ \E w \in Workers : WTemplateStatusCheck(w)
  \/ \E w \in Workers : WExecuteTemplateEnter(w)
  \/ \E w \in Workers : WInjectProduction(w)
  \/ \E w \in Workers : WMerge(w)
  \/ \E w \in Workers : WExecute(w)
  \/ \E w \in Workers : WAfterExecute(w)
  \/ \E w \in Workers : WWriteHeader(w)
  \/ \E w \in Workers : WWriteBody(w)
  \/ \E w \in Workers : WString(w)
  \/ \E w \in Workers : WBytes(w)
  \/ \E w \in Workers : WJSON(w)
  \/ \E w \in Workers : WRedirect(w)
  \/ \E w \in Workers : WStatus(w)
  \/ \E w \in Workers : WFinish(w)

SpecServe == InitServe /\ [][NextServe]_vars

\* ------------------------------------------------------------------- claims

Reserved == {"c", "production"}
Templated(cl) == cl.op \in {"Template", "TemplateStatus", "ExecuteTemplate"}
\* The last call was a templated render that got past the nil-catalog check.
Executed == Templated(call) /\ call.err # errNoTemplatesDir
HtmlResp(code, body) ==
  [log |-> <<"header", "status", "body">>, contentType |-> "text/html; charset=utf-8",
   location |-> "", code |-> code, body |-> body]

\* C1: on a populated catalog Template / TemplateStatus is all-or-nothing:
\* either the execution succeeds and the response gets the content type
\* text/html; charset=utf-8, then the requested status, then the complete
\* rendered body, or it fails (unknown name, a function returning an error),
\* nothing at all was written to the response and the error is raised.
C1_AllOrNothing ==
  (call.op \in {"Template", "TemplateStatus"} /\ ~templates.nil) =>
    LET full == LibExecuteTemplate(templates, call.name, call.seen.kv)
    IN /\ call.name \notin DOMAIN templates.tmpls => call.err = ErrUndefined
       /\ call.err = full.err
       /\ call.op = "Template" => call.code = StatusOK
       /\ IF call.err = NoErr
          THEN /\ ~call.panicked
               /\ resp = HtmlResp(call.code, full.out)
               /\ (call.name = "hello.tmpl" =>
                     resp.body = <<"Hello, ",
                                   IF "k" \in DOMAIN call.seen.kv THEN call.seen.kv["k"]
                                   ELSE "<no value>",
                                   "!", call.seen.kv["c"], call.seen.kv["production"]>>)
          ELSE /\ call.panicked
               /\ call.err \in {ErrUndefined, ErrFunc}
               /\ resp = EmptyResp

\* C1 witness: a render failed in a function after part of the output was
\* produced, and the response is untouched.
C1_Witness ==
  /\ call.op = "TemplateStatus"
  /\ call.name = "fail.tmpl"
  /\ call.err = ErrFunc
  /\ call.out # <<>>
  /\ resp = EmptyResp

\* C2: when the templates directory does not exist at startup the catalog
\* stays absent in every reachable state, and TemplatesFuncs, TemplatesData,
\* Template, TemplateStatus and ExecuteTemplate all fail with the no-templates
\* error and write nothing to the response.
C2_AbsentCatalog ==
  ~dirExists =>
    /\ templates = NilTemplates
    /\ templatesData = NilMap
    /\ (Templated(call) \/ call.op \in {"TemplatesFuncs", "TemplatesData"}) =>
         /\ call.err = errNoTemplatesDir
         /\ call.out = <<>>
         /\ resp = EmptyResp
         /\ call.panicked = (call.op # "ExecuteTemplate")

\* C2 witness: a templated render was attempted without the directory.
C2_Witness ==
  /\ ~dirExists
  /\ phase = "serving"
  /\ call.op = "TemplateStatus"
  /\ call.err = errNoTemplatesDir

\* C3 as claimed: in the map the template is executed against, the caller's
\* value is seen under every key present in both the caller's map and the
\* overlay, and the overlay's value under every overlay key the caller did
\* not supply.
C3_Original ==
  Executed =>
    \A k \in DOMAIN templatesData.kv :
      call.seen.kv[k] = IF k \in DOMAIN call.arg.kv THEN call.arg.kv[k]
                        ELSE templatesData.kv[k]

\* C3 as amended: under every key other than the reserved keys c and
\* production, the template sees the caller's value when the caller supplied
\* the key and the overlay's value when only the overlay holds it; an overlay
\* entry under a reserved key the caller did not supply is never seen, the
\* injected value is.
C3_CallWinsOverOverlay ==
  Executed =>
    /\ \A k \in (DOMAIN templatesData.kv) \ Reserved :
         call.seen.kv[k] = IF k \in DOMAIN call.arg.kv THEN call.arg.kv[k]
                           ELSE templatesData.kv[k]
    /\ \A k \in (DOMAIN call.arg.kv) \ Reserved : call.seen.kv[k] = call.arg.kv[k]
    /\ ("c" \in DOMAIN templatesData.kv /\ "c" \notin DOMAIN call.arg.kv) =>
         call.seen.kv["c"] = CtxVal
    /\ ("production" \in DOMAIN templatesData.kv /\ "production" \notin DOMAIN call.arg.kv) =>
         call.seen.kv["production"] = ProductionVal

\* C3 witness: a template was executed with the key k both in the caller's
\* map and in the overlay, and the overlay also holds a reserved key.
C3_Witness ==
  /\ Executed
  /\ call.err = NoErr
  /\ "k" \in DOMAIN call.arg.kv
  /\ call.arg.kv["k"] = "u"
  /\ {"k", "c"} \subseteq DOMAIN templatesData.kv
  /\ "c" \notin DOMAIN call.arg.kv

\* C4: the reserved keys c and production are injected without overwriting
\* the caller's values: the template sees the caller's value under a reserved
\* key the caller supplied, and the injected context / production flag only
\* under one the caller did not supply.
C4_ReservedNotOverwritten ==
  Executed =>
    /\ call.seen.kv["c"] = IF "c" \in DOMAIN call.arg.kv THEN call.arg.kv["c"] ELSE CtxVal
    /\ call.seen.kv["production"] =
         IF "production" \in DOMAIN call.arg.kv THEN call.arg.kv["production"]
         ELSE ProductionVal

IsEmptyMap(m) == m.nil \/ DOMAIN m.kv = {}

\* C6 as claimed: TemplatesData with an empty or absent map returns without
\* failing in every catalog state, the absent catalog included.
C6_Original ==
  (call.op = "TemplatesData" /\ IsEmptyMap(call.arg)) =>
    (call.err = NoErr /\ ~call.panicked)

\* C6 as amended: TemplatesData with an empty or absent map returns without
\* failing and leaves the overlay unchanged when the catalog is present; when
\* the catalog is absent the call fails with the no-templates error whatever
\* the map holds (the catalog check comes first), the overlay unchanged too.
C6_EmptyIsNoOpOnPresentCatalog ==
  [][call'.op = "TemplatesData" =>
       /\ IsEmptyMap(call'.arg) => templatesData' = templatesData
       /\ templates.nil =>
            (call'.err = errNoTemplatesDir /\ call'.panicked /\ templatesData' = templatesData)
       /\ (~templates.nil) => (call'.err = NoErr /\ ~call'.panicked)
       /\ resp' = EmptyResp]_vars

\* C6 witness: TemplatesData was called with an empty map on an absent
\* catalog, and failed.
C6_Witness ==
  /\ call.op = "TemplatesData"
  /\ IsEmptyMap(call.arg)
  /\ templates.nil
  /\ call.err = errNoTemplatesDir

\* An entry whose templatesWalk call returns an error, with the functions the
\* catalog defines when the walk runs.
EntryFails(e) ==
  \/ e.err # NoErr
  \/ /\ ~e.isDir
     /\ \/ e.path = Broken
        \/ \E i \in 1..Len(FileBody(e.path)) :
             FileBody(e.path)[i].op = "call"
             /\ FileBody(e.path)[i].arg \notin DOMAIN templates.funcs
FailingEntries == {i \in 1..Len(TreeOf(tree)) : EntryFails(TreeOf(tree)[i])}
FilesUpTo(n) ==
  {TreeOf(tree)[i].path : i \in {j \in 1..n : ~TreeOf(tree)[j].isDir}}

\* C7: an error while walking or parsing the templates directory is fatal:
\* the walk stops at the first failing entry, the hook panics, and no serving
\* state is reachable after it; without an error every regular file under
\* the directory was parsed into the catalog, directories being skipped but
\* recursed into.
C7_WalkErrorIsFatal ==
  /\ walkErr # NoErr => phase = "panicked"
  /\ phase = "panicked" =>
       /\ walkErr # NoErr
       /\ FailingEntries # {}
       /\ \A i \in FailingEntries : walked <= i
       /\ walked \in FailingEntries
       /\ templates.parsed = FilesUpTo(walked - 1)
       /\ ~Templated(call)
  /\ (phase = "serving" /\ dirExists) =>
       /\ walkErr = NoErr
       /\ walked = Len(TreeOf(tree))
       /\ templates.parsed = FilesUpTo(Len(TreeOf(tree)))
       /\ "templates/sub/page.tmpl" \in templates.parsed
       /\ \A i \in 1..Len(TreeOf(tree)) :
            ~TreeOf(tree)[i].isDir =>
              /\ TreeOf(tree)[i].base \in DOMAIN templates.tmpls
              /\ templates.tmpls[TreeOf(tree)[i].base] = TreeOf(tree)[i].path

\* C7 witness: the walk met the file with the syntax error, fourth in the
\* walk, and the hook panicked with one file parsed before it.
C7_Witness ==
  /\ phase = "panicked"
  /\ tree = "broken"
  /\ walked = 4
  /\ templates.parsed = {"templates/hello.tmpl"}

\* C8: JSON / JSONStatus of a value that cannot be serialized fails before
\* anything is written to the response; of a serializable value it sets the
\* content type application/json, then writes the status code, then the
\* serialized bytes, whatever the catalog state.
C8_JSONAllOrNothing ==
  call.op \in {"JSON", "JSONStatus"} =>
    /\ call.op = "JSON" => call.code = StatusOK
    /\ IF call.name = "cyclic"
       THEN call.err = ErrMarshal /\ call.panicked /\ resp = EmptyResp
       ELSE /\ call.err = NoErr
            /\ ~call.panicked
            /\ resp = [log |-> <<"header", "status", "body">>,
                       contentType |-> "application/json", location |-> "",
                       code |-> call.code, body |-> <<"{\"a\":1}">>]

\* C8 witness: a value with a cycle was handed to JSONStatus on a process
\* without a catalog, and nothing was written.
C8_Witness ==
  /\ call.op = "JSONStatus"
  /\ call.name = "cyclic"
  /\ call.code = 404
  /\ templates.nil
  /\ resp = EmptyResp

\* C10 as claimed: a templated render does not alter the data map the caller
\* passed in: after the call the caller's map holds the entries it held before.
C10_Original == Templated(call) => heap = call.arg

\* C10 as amended: a templated render leaves the caller's map as it was only
\* when the map is nil or the catalog is absent; otherwise the reserved keys
\* and the overlay entries are written into the caller's own map, which after
\* the call is the map the template was executed against, the caller's
\* entries under the other keys being kept.
C10_CallerMapIsEffectiveMap ==
  Templated(call) =>
    /\ heap = IF call.arg.nil \/ call.err = errNoTemplatesDir THEN call.arg ELSE call.seen
    /\ \A k \in (DOMAIN call.arg.kv) \ Reserved :
         k \in DOMAIN heap.kv /\ heap.kv[k] = call.arg.kv[k]

\* C10 witness: a render was handed the map of an earlier render, which holds
\* the overlay's value of then under k, and the template saw that value
\* although the overlay has another one now.
C10_Witness ==
  /\ Executed
  /\ "k" \in DOMAIN call.arg.kv
  /\ call.arg.kv["k"] = "o1"
  /\ call.seen.kv["k"] = "o1"
  /\ "k" \in DOMAIN templatesData.kv
  /\ templatesData.kv["k"] = "o2"
  /\ heap = call.seen

\* The right-biased merge of two maps' entries, and of a sequence of maps.
RightMerge(a, b) ==
  [k \in (DOMAIN a) \cup (DOMAIN b) |-> IF k \in DOMAIN b THEN b[k] ELSE a[k]]
RECURSIVE MergeAll(_)
MergeAll(ms) ==
  IF ms = <<>> THEN EmptyKV
  ELSE RightMerge(MergeAll(SubSeq(ms, 1, Len(ms) - 1)), ms[Len(ms)].kv)

\* C5: after any sequence of TemplatesData calls on a present catalog the
\* overlay is the right-biased merge of the registered maps in call order (a
\* later registration wins on a shared key), no call removes a key, and
\* registering the same map twice in a row leaves the overlay as the first
\* registration left it.
C5_OverlayIsRightBiasedMerge ==
  /\ [](~templates.nil => templatesData.kv = MergeAll(regs))
  /\ [][DOMAIN templatesData.kv \subseteq DOMAIN templatesData'.kv]_vars
  /\ [][(regs' # regs /\ Len(regs) >= 1 /\ regs'[Len(regs')] = regs[Len(regs)])
          => templatesData' = templatesData]_vars

\* C5 witness: two registrations disagreed on k and the later one won, the
\* key c of the first one being kept.
C5_Witness ==
  /\ ~templates.nil
  /\ Len(regs) = 2
  /\ regs[1].kv = [x \in {"k", "c"} |-> "o1"]
  /\ regs[2].kv = [x \in {"k"} |-> "o2"]
  /\ templatesData.kv = [x \in {"k", "c"} |-> IF x = "k" THEN "o2" ELSE "o1"]

\* What the request of a worker gets when its render runs alone, as one step.
AloneTemplated(x) ==
  IF x.op = "ExecuteTemplate"
  THEN LET r == ExecuteTemplateOp(templates, templatesData, CtxVal, x.name, x.arg)
       IN /\ x.err = r.err
          /\ x.buf = r.out
          /\ ~x.panicked
          /\ x.resp = EmptyResp
          /\ r.err # errNoTemplatesDir => x.data = r.seen
  ELSE LET r == TemplateStatusOp(templates, templatesData, CtxVal, x.code, x.name, x.arg)
       IN /\ x.err = r.err
          /\ x.panicked = r.panicked
          /\ x.resp = r.resp
          /\ r.err # errNoTemplatesDir => x.data = r.seen
AlonePlain(x) ==
  CASE x.op = "String" -> x.resp = StringOp(x.name)
    [] x.op = "Bytes" -> x.resp = BytesOp(x.name)
    [] x.op = "JSON" -> x.resp = JSONOp(x.name).resp /\ x.err = JSONOp(x.name).err
    [] x.op = "Redirect" -> x.resp = RedirectOp(x.name, x.code)
    [] x.op = "Status" -> x.resp = StatusOp(x.code)
    [] OTHER -> FALSE

====
